---- MODULE Spec2Model ----
(***************************************************************************)
(* Model of cvss/common/metrics.go: the Metrics map (Get, Set, String,     *)
(* strToMetrics) and WeightsMetrics (Set, Parse, Weight) built on it.      *)
(*                                                                         *)
(* A Go string is a sequence of one-character strings, so that splitting   *)
(* and joining on "/" and ":" are computed character by character.  A Go   *)
(* map[string]string is a function whose domain is a finite set of such    *)
(* sequences.  A Go error is a record: kind "nil" is the nil error, the    *)
(* other kinds name the fmt.Errorf call that built it, args are the values *)
(* formatted into its message, ctx the errors.Wrapf contexts around it.    *)
(***************************************************************************)
EXTENDS Integers, Sequences, FiniteSets, TLC

VARIABLES
    vector,   \* the Metrics map (of a WeightsMetrics: its embedded Metrics)
    everSet,  \* history: the metric names some Metrics.Set has stored so far
    call,     \* the call in progress or just returned: operation, arguments, results
    pc        \* "idle": the caller is between calls; "returned": call holds a result

vars == <<vector, everSet, call, pc>>

(***************************************************************************)
(* Constants of the package                                                *)
(***************************************************************************)
partSeparator == "/"
metricSeparator == ":"

(***************************************************************************)
(* Bounds                                                                  *)
(***************************************************************************)
\* longest raw string handed to strToMetrics in SpecParse
MaxLen == 5
\* longest metric name or value stored by Metrics.Set in SpecMetrics
MaxIdLen == 1
\* most entries a plain Metrics map holds in SpecMetrics
MaxEntries == 2
\* most "/"-separated tokens in a string handed to WeightsMetrics.Parse
MaxParts == 2

(***************************************************************************)
(* Strings and maps                                                        *)
(***************************************************************************)
EmptyMetrics == [k \in {} |-> k]

MapPut(ms, k, v) == [x \in (DOMAIN ms) \cup {k} |-> IF x = k THEN v ELSE ms[x]]

NilError == [kind |-> "nil", args |-> <<>>, ctx |-> <<>>]

Errorf(kind, args) == [kind |-> kind, args |-> args, ctx |-> <<>>]

Wrapf(err, context) == [err EXCEPT !.ctx = <<context>> \o @]

RECURSIVE Split(_, _)
\* strings.Split(s, sep) for a one-character sep: the pieces between the
\* occurrences of sep, one more piece than there are occurrences
Split(s, sep) ==
    IF \A i \in 1..Len(s) : s[i] # sep
    THEN <<s>>
    ELSE LET i == CHOOSE j \in 1..Len(s) :
                      s[j] = sep /\ \A k \in 1..(j - 1) : s[k] # sep
         IN  <<SubSeq(s, 1, i - 1)>> \o Split(SubSeq(s, i + 1, Len(s)), sep)

RECURSIVE Join(_, _)
\* strings.Join(parts, sep)
Join(parts, sep) ==
    IF Len(parts) = 0 THEN <<>>
    ELSE IF Len(parts) = 1 THEN parts[1]
    ELSE parts[1] \o <<sep>> \o Join(Tail(parts), sep)

\* the orders in which a range over a map with key set S can visit the keys
Orders(S) ==
    {o \in [1..Cardinality(S) -> S] : \A i, j \in 1..Cardinality(S) : o[i] = o[j] => i = j}

(***************************************************************************)
(* Metrics                                                                 *)
(***************************************************************************)
Get(ms, m) ==
    IF m \in DOMAIN ms
    THEN [value |-> ms[m], err |-> NilError]
    ELSE [value |-> <<>>, err |-> Errorf("NotFound", <<m>>)]

MetricsSetResult(ms, metric, value) ==
    [ms |-> MapPut(ms, metric, value), err |-> NilError]

\* String with the two separators exchanged
StringSwappedSeparators(ms, ord) ==
    Join([i \in 1..Len(ord) |-> ord[i] \o <<partSeparator>> \o ms[ord[i]]],
         metricSeparator)

\* Metrics.String with the range visiting the keys in the order ord
String(ms, ord) ==
    Join([i \in 1..Len(ord) |-> ord[i] \o <<metricSeparator>> \o ms[ord[i]]],
         partSeparator)

RECURSIVE strToMetricsNoDupCheck(_, _, _)
\* the loop without the "already set" test: a later token overwrites an earlier one
strToMetricsNoDupCheck(parts, i, metrics) ==
    IF i > Len(parts)
    THEN [metrics |-> metrics, err |-> NilError]
    ELSE LET part == parts[i]
             tmp == Split(part, metricSeparator)
         IN  IF Len(tmp) # 2
             THEN [metrics |-> EmptyMetrics,
                   err |-> Errorf("MalformedToken", <<part>>)]
             ELSE strToMetricsNoDupCheck(parts, i + 1, MapPut(metrics, tmp[1], tmp[2]))

RECURSIVE strToMetricsAtLeastTwo(_, _, _)
\* the loop testing len(tmp) < 2 instead of len(tmp) != 2
strToMetricsAtLeastTwo(parts, i, metrics) ==
    IF i > Len(parts)
    THEN [metrics |-> metrics, err |-> NilError]
    ELSE LET part == parts[i]
             tmp == Split(part, metricSeparator)
         IN  IF Len(tmp) < 2
             THEN [metrics |-> EmptyMetrics,
                   err |-> Errorf("MalformedToken", <<part>>)]
             ELSE IF tmp[1] \in DOMAIN metrics
             THEN [metrics |-> EmptyMetrics,
                   err |-> Errorf("DuplicateMetric", <<tmp[1]>>)]
             ELSE strToMetricsAtLeastTwo(parts, i + 1, MapPut(metrics, tmp[1], tmp[2]))

RECURSIVE strToMetricsLoop(_, _, _)
\* the loop of strToMetrics from part i on, metrics being the map built so far
strToMetricsLoop(parts, i, metrics) ==
    IF i > Len(parts)
    THEN [metrics |-> metrics, err |-> NilError]
    ELSE LET part == parts[i]
             tmp == Split(part, metricSeparator)
         IN  IF Len(tmp) # 2
             THEN [metrics |-> EmptyMetrics,
                   err |-> Errorf("MalformedToken", <<part>>)]
             ELSE IF tmp[1] \in DOMAIN metrics
             THEN [metrics |-> EmptyMetrics,
                   err |-> Errorf("DuplicateMetric", <<tmp[1]>>)]
             ELSE strToMetricsLoop(parts, i + 1, MapPut(metrics, tmp[1], tmp[2]))

strToMetrics(str) ==
    strToMetricsLoop(Split(str, partSeparator), 1, EmptyMetrics)

(***************************************************************************)
(* WeightsMetrics                                                          *)
(***************************************************************************)
AV == <<"A", "V">>
AC == <<"A", "C">>
XX == <<"X", "X">>
N == <<"N">>
A == <<"A">>

\* the Weights field: the table the caller configures, weights in hundredths
Weights == (AV :> (N :> 85 @@ A :> 62)) @@ (AC :> (N :> 71))

\* Set without the test of the value against the metric's values
WeightedSetNoValueCheck(ms, metric, value) ==
    IF metric \notin DOMAIN Weights
    THEN [ms |-> ms, err |-> Errorf("UnknownMetric", <<metric>>)]
    ELSE MetricsSetResult(ms, metric, value)

\* Set storing the pair before it validates it
WeightedSetStoreFirst(ms, metric, value) ==
    LET r == MetricsSetResult(ms, metric, value)
    IN  IF metric \notin DOMAIN Weights
        THEN [ms |-> r.ms, err |-> Errorf("UnknownMetric", <<metric>>)]
        ELSE IF value \notin DOMAIN Weights[metric]
        THEN [ms |-> r.ms, err |-> Errorf("InvalidValue", <<metric, value>>)]
        ELSE r

WeightedSetResult(ms, metric, value) ==
    IF metric \notin DOMAIN Weights
    THEN [ms |-> ms, err |-> Errorf("UnknownMetric", <<metric>>)]
    ELSE IF value \notin DOMAIN Weights[metric]
    THEN [ms |-> ms, err |-> Errorf("InvalidValue", <<metric, value>>)]
    ELSE MetricsSetResult(ms, metric, value)

RECURSIVE ParseLoopNoOverwrite(_, _, _, _, _)
\* the range loop refusing a metric the vector already holds
ParseLoopNoOverwrite(ms, metrics, ord, i, stored) ==
    IF i > Len(ord)
    THEN [ms |-> ms, err |-> NilError, stored |-> stored]
    ELSE LET metric == ord[i]
             value == metrics[metric]
             r == IF metric \in DOMAIN ms
                  THEN [ms |-> ms, err |-> Errorf("DuplicateMetric", <<metric>>)]
                  ELSE WeightedSetResult(ms, metric, value)
         IN  IF r.err.kind # "nil"
             THEN [ms |-> r.ms,
                   err |-> Wrapf(r.err, <<"unable to set metric", metric, value>>),
                   stored |-> stored]
             ELSE ParseLoopNoOverwrite(r.ms, metrics, ord, i + 1, stored \cup {metric})

RECURSIVE ParseLoop(_, _, _, _, _)
\* the range loop of Parse over the parsed metrics, visiting the keys in the
\* order ord, from the i-th on; stored is the set of keys Set has accepted
ParseLoop(ms, metrics, ord, i, stored) ==
    IF i > Len(ord)
    THEN [ms |-> ms, err |-> NilError, stored |-> stored]
    ELSE LET metric == ord[i]
             value == metrics[metric]
             r == WeightedSetResult(ms, metric, value)
         IN  IF r.err.kind # "nil"
             THEN [ms |-> r.ms,
                   err |-> Wrapf(r.err, <<"unable to set metric", metric, value>>),
                   stored |-> stored]
             ELSE ParseLoop(r.ms, metrics, ord, i + 1, stored \cup {metric})

RECURSIVE ParseSinglePassLoop(_, _, _, _, _)
\* Parse in one pass: each token is split, tested and Set before the next is read
ParseSinglePassLoop(ms, parts, i, seen, stored) ==
    IF i > Len(parts)
    THEN [ms |-> ms, err |-> NilError, stored |-> stored]
    ELSE LET part == parts[i]
             tmp == Split(part, metricSeparator)
         IN  IF Len(tmp) # 2
             THEN [ms |-> ms, stored |-> stored,
                   err |-> Wrapf(Errorf("MalformedToken", <<part>>),
                                 <<"unable to parse metrics">>)]
             ELSE IF tmp[1] \in seen
             THEN [ms |-> ms, stored |-> stored,
                   err |-> Wrapf(Errorf("DuplicateMetric", <<tmp[1]>>),
                                 <<"unable to parse metrics">>)]
             ELSE LET r == WeightedSetResult(ms, tmp[1], tmp[2])
                  IN  IF r.err.kind # "nil"
                      THEN [ms |-> r.ms, stored |-> stored,
                            err |-> Wrapf(r.err, <<"unable to set metric", tmp[1], tmp[2]>>)]
                      ELSE ParseSinglePassLoop(r.ms, parts, i + 1, seen \cup {tmp[1]},
                                               stored \cup {tmp[1]})

ParseSinglePass(ms, str, ord) ==
    ParseSinglePassLoop(ms, Split(str, partSeparator), 1, {}, {})

\* Parse restoring the vector when a Set fails
ParseAllOrNothing(ms, str, ord) ==
    LET p == strToMetrics(str)
    IN  IF p.err.kind # "nil"
        THEN [ms |-> ms, err |-> Wrapf(p.err, <<"unable to parse metrics">>),
              stored |-> {}]
        ELSE LET r == ParseLoop(ms, p.metrics, ord, 1, {})
             IN  IF r.err.kind # "nil"
                 THEN [ms |-> ms, err |-> r.err, stored |-> {}]
                 ELSE r

ParseResult(ms, str, ord) ==
    LET p == strToMetrics(str)
    IN  IF p.err.kind # "nil"
        THEN [ms |-> ms, err |-> Wrapf(p.err, <<"unable to parse metrics">>),
              stored |-> {}]
        ELSE ParseLoop(ms, p.metrics, ord, 1, {})

\* wms.Weights[metric][value]: a missing key at either level yields the zero value
WeightsLookup(metric, value) ==
    IF metric \in DOMAIN Weights /\ value \in DOMAIN Weights[metric]
    THEN Weights[metric][value]
    ELSE 0

\* Weight indexing the table by value first and metric second
WeightSwappedKeys(ms, metric) ==
    LET g == Get(ms, metric)
    IN  IF g.err.kind # "nil"
        THEN [w |-> 0,
              err |-> Wrapf(g.err, <<"unable to get value for metric", metric>>)]
        ELSE [w |-> WeightsLookup(g.value, metric), err |-> NilError]

Weight(ms, metric) ==
    LET g == Get(ms, metric)
    IN  IF g.err.kind # "nil"
        THEN [w |-> 0,
              err |-> Wrapf(g.err, <<"unable to get value for metric", metric>>)]
        ELSE [w |-> WeightsLookup(metric, g.value), err |-> NilError]

WeightDefault(ms, metric, def) ==
    LET r == Weight(ms, metric)
    IN  IF r.err.kind = "nil" THEN r.w ELSE def

(***************************************************************************)
(* Inputs of the calls                                                     *)
(***************************************************************************)
MetricNames == {AV, AC, XX}

ValueNames == {N, A}

\* tokens with one ":" (valid, of an invalid value, of an unknown metric), and
\* tokens with no ":", with two ":" and with no character at all
Tokens ==
    {m \o <<metricSeparator>> \o v : m \in MetricNames, v \in ValueNames}
        \cup {AV, AV \o <<metricSeparator>> \o N \o <<metricSeparator>> \o A, <<>>}

ParseInputs ==
    {Join(ts, partSeparator) : ts \in UNION {[1..k -> Tokens] : k \in 1..MaxParts}}

\* separator-free names and values for a plain Metrics map
IdStrings == UNION {[1..k -> {"A", "B"}] : k \in 0..MaxIdLen}

NoCall == [op |-> "none"]

(***************************************************************************)
(* The calls                                                               *)
(***************************************************************************)
Init ==
    /\ vector = EmptyMetrics
    /\ everSet = {}
    /\ call = NoCall
    /\ pc = "idle"

\* WeightsMetrics.Set(metric, value)
WeightedSet(metric, value) ==
    /\ pc = "idle"
    /\ LET r == WeightedSetResult(vector, metric, value)
       IN  /\ vector' = r.ms
           /\ everSet' = IF r.err.kind = "nil" THEN everSet \cup {metric} ELSE everSet
           /\ call' = [op |-> "Set", metric |-> metric, value |-> value,
                       before |-> vector, err |-> r.err]
    /\ pc' = "returned"

\* WeightsMetrics.Parse(str), the range over the parsed map taking any order
Parse(str) ==
    /\ pc = "idle"
    /\ \E ord \in Orders(DOMAIN strToMetrics(str).metrics) :
           LET r == ParseResult(vector, str, ord)
           IN  /\ vector' = r.ms
               /\ everSet' = everSet \cup r.stored
               /\ call' = [op |-> "Parse", str |-> str, ord |-> ord,
                           before |-> vector, err |-> r.err, stored |-> r.stored]
    /\ pc' = "returned"

\* WeightsMetrics.Weight(metric)
WeightCall(metric) ==
    /\ pc = "idle"
    /\ call' = [op |-> "Weight", metric |-> metric, ret |-> Weight(vector, metric)]
    /\ pc' = "returned"
    /\ UNCHANGED <<vector, everSet>>

\* Metrics.Set(metric, value): on a plain Metrics, or on the embedded Metrics
\* field of a WeightsMetrics (wms.Metrics.Set), which the struct exports
MetricsSet(metric, value) ==
    /\ pc = "idle"
    /\ LET r == MetricsSetResult(vector, metric, value)
       IN  /\ vector' = r.ms
           /\ everSet' = everSet \cup {metric}
           /\ call' = [op |-> "Metrics.Set", metric |-> metric, value |-> value,
                       before |-> vector, err |-> r.err]
    /\ pc' = "returned"

\* Metrics.String(), the range over the map taking any order
StringCall ==
    /\ pc = "idle"
    /\ \E ord \in Orders(DOMAIN vector) :
           call' = [op |-> "String", ord |-> ord, str |-> String(vector, ord)]
    /\ pc' = "returned"
    /\ UNCHANGED <<vector, everSet>>

\* the caller drops what the last call returned and goes on to its next call
Return ==
    /\ pc = "returned"
    /\ pc' = "idle"
    /\ call' = NoCall
    /\ UNCHANGED <<vector, everSet>>

(***************************************************************************)
(* Inputs of SpecParse: every string of at most MaxLen characters          *)
(***************************************************************************)
Alphabet == {"A", "B", partSeparator, metricSeparator}

StringsUpTo(chars, n) == UNION {[1..k -> chars] : k \in 0..n}

RawStrings == StringsUpTo(Alphabet, MaxLen)

(***************************************************************************)
(* SpecParse: strToMetrics applied to one raw string                       *)
(***************************************************************************)
InitParse ==
    /\ vector = EmptyMetrics
    /\ everSet = {}
    /\ pc = "idle"
    /\ \E s \in RawStrings : call = [op |-> "input", str |-> s]

\* strToMetrics(call.str), for an input string or for the string String returned
StrToMetricsCall ==
    /\ call.op \in {"input", "String"}
    /\ call' = [op |-> "strToMetrics", from |-> call.op, str |-> call.str,
                ret |-> strToMetrics(call.str)]
    /\ pc' = "returned"
    /\ UNCHANGED <<vector, everSet>>

NextParse == StrToMetricsCall

SpecParse == InitParse /\ [][NextParse]_vars

(***************************************************************************)
(* Spec: a WeightsMetrics used through its own methods                     *)
(***************************************************************************)
Next ==
    \/ \E m \in MetricNames, v \in ValueNames : WeightedSet(m, v)
    \/ \E s \in ParseInputs : Parse(s)
    \/ \E m \in MetricNames : WeightCall(m)
    \/ Return

Spec == Init /\ [][Next]_vars

(***************************************************************************)
(* SpecExt: the same, with the embedded Metrics field used as well         *)
(***************************************************************************)
NextExt ==
    \/ Next
    \/ \E m \in MetricNames, v \in ValueNames : MetricsSet(m, v)

SpecExt == Init /\ [][NextExt]_vars

(***************************************************************************)
(* SpecMetrics: a plain Metrics built by Set, serialized and parsed back   *)
(***************************************************************************)
NextMetrics ==
    \/ \E m \in IdStrings, v \in IdStrings :
           /\ m \in DOMAIN vector \/ Cardinality(DOMAIN vector) < MaxEntries
           /\ MetricsSet(m, v)
    \/ StringCall
    \/ StrToMetricsCall
    \/ Return

SpecMetrics == Init /\ [][NextMetrics]_vars

(***************************************************************************)
(* The wire format, stated on the characters of the string (used by the    *)
(* properties only: no operation of the model computes with these)         *)
(***************************************************************************)
SepPositions(s) == {i \in 1..Len(s) : s[i] = "/"}

NumTokens(s) == Cardinality(SepPositions(s)) + 1

\* the position of the k-th "/" of s; 0 before the first token, Len(s) + 1 after the last
Cut(s, k) ==
    IF k = 0 THEN 0
    ELSE IF k = NumTokens(s) THEN Len(s) + 1
    ELSE CHOOSE p \in SepPositions(s) :
             Cardinality({q \in SepPositions(s) : q <= p}) = k

Token(s, k) == SubSeq(s, Cut(s, k - 1) + 1, Cut(s, k) - 1)

Colons(t) == Cardinality({i \in 1..Len(t) : t[i] = ":"})

ExactlyOneColon(t) == Colons(t) = 1

ColonAt(t) == CHOOSE i \in 1..Len(t) : t[i] = ":"

NameOf(t) == SubSeq(t, 1, ColonAt(t) - 1)

ValueOf(t) == SubSeq(t, ColonAt(t) + 1, Len(t))

\* token j has exactly one ":" and repeats the name of an earlier such token
RepeatsEarlier(s, j) ==
    /\ ExactlyOneColon(Token(s, j))
    /\ \E i \in 1..(j - 1) :
           /\ ExactlyOneColon(Token(s, i))
           /\ NameOf(Token(s, i)) = NameOf(Token(s, j))

HasRepeat(s) == \E j \in 1..NumTokens(s) : RepeatsEarlier(s, j)

HasMalformed(s) == \E j \in 1..NumTokens(s) : ~ExactlyOneColon(Token(s, j))

Least(S, none) == IF S = {} THEN none ELSE CHOOSE x \in S : \A y \in S : x <= y

\* index of the first repeating token, of the first malformed token; one past the last if none
FirstRepeat(s) ==
    Least({j \in 1..NumTokens(s) : RepeatsEarlier(s, j)}, NumTokens(s) + 1)

FirstMalformed(s) ==
    Least({j \in 1..NumTokens(s) : ~ExactlyOneColon(Token(s, j))}, NumTokens(s) + 1)

Parsed == call.op = "strToMetrics"

(***************************************************************************)
(* C4, as stated: a string in which one metric name appears in more than   *)
(* one token always fails with DuplicateMetric, whatever its other tokens. *)
(***************************************************************************)
C4_AlwaysDuplicate ==
    (Parsed /\ HasRepeat(call.str)) => call.ret.err.kind = "DuplicateMetric"

(***************************************************************************)
(* C4, amended: such a string always fails; the failure is DuplicateMetric *)
(* exactly when no token lacking exactly one ":" comes before the first    *)
(* token that repeats an earlier name, and is MalformedToken otherwise.    *)
(***************************************************************************)
C4_RepeatFails ==
    (Parsed /\ HasRepeat(call.str)) =>
        /\ call.ret.err.kind \in {"DuplicateMetric", "MalformedToken"}
        /\ call.ret.err.kind = "DuplicateMetric"
               <=> FirstRepeat(call.str) < FirstMalformed(call.str)
        /\ call.ret.metrics = EmptyMetrics

C4_Witness ==
    /\ Parsed
    /\ HasRepeat(call.str)
    /\ HasMalformed(call.str)
    /\ call.ret.err.kind = "DuplicateMetric"
    /\ call.ret.err.args = <<NameOf(Token(call.str, FirstRepeat(call.str)))>>

(***************************************************************************)
(* C5, as stated: a string with a token that has not exactly one ":" fails *)
(* with MalformedToken, and a string whose every token has exactly one ":" *)
(* never fails with MalformedToken.                                        *)
(***************************************************************************)
C5_AlwaysMalformed ==
    Parsed =>
        /\ HasMalformed(call.str) => call.ret.err.kind = "MalformedToken"
        /\ ~HasMalformed(call.str) => call.ret.err.kind # "MalformedToken"

(***************************************************************************)
(* C5, amended: a string with a token that has not exactly one ":" always  *)
(* fails, with MalformedToken unless a token before the first such token   *)
(* repeats an earlier metric name (then with DuplicateMetric); a string    *)
(* whose every token has exactly one ":" never fails with MalformedToken.  *)
(***************************************************************************)
C5_MalformedFails ==
    Parsed =>
        /\ HasMalformed(call.str) =>
               /\ call.ret.err.kind \in {"MalformedToken", "DuplicateMetric"}
               /\ call.ret.err.kind = "MalformedToken"
                      <=> FirstMalformed(call.str) < FirstRepeat(call.str)
        /\ ~HasMalformed(call.str) => call.ret.err.kind # "MalformedToken"

C5_Witness ==
    /\ Parsed
    /\ HasMalformed(call.str)
    /\ HasRepeat(call.str)
    /\ call.ret.err.kind = "MalformedToken"
    /\ call.ret.err.args = <<Token(call.str, FirstMalformed(call.str))>>

(***************************************************************************)
(* The weight table and the pairs of a string, for the properties          *)
(***************************************************************************)
Validated(m, v) == m \in DOMAIN Weights /\ v \in DOMAIN Weights[m]

\* the names of the tokens of s that have exactly one ":"
NamesOf(s) ==
    {NameOf(Token(s, j)) : j \in {i \in 1..NumTokens(s) : ExactlyOneColon(Token(s, i))}}

\* the value of the first token of s whose name is n
ValueIn(s, n) ==
    ValueOf(Token(s, Least({j \in 1..NumTokens(s) :
                               /\ ExactlyOneColon(Token(s, j))
                               /\ NameOf(Token(s, j)) = n}, 1)))

AllValid(s) ==
    \A j \in 1..NumTokens(s) :
        /\ ExactlyOneColon(Token(s, j))
        /\ Validated(NameOf(Token(s, j)), ValueOf(Token(s, j)))

\* the map before, overwritten with the pairs of s whose names are in names
Overwrite(before, s, names) ==
    [x \in (DOMAIN before) \cup names |->
        IF x \in names THEN ValueIn(s, x) ELSE before[x]]

Failed(err) == err.kind # "nil"

(***************************************************************************)
(* C1: after any sequence of WeightsMetrics.Set and Parse calls from an    *)
(* empty vector, failing or not, every stored pair (m, v) has m a key of   *)
(* the weight table and v a key of weights[m].                             *)
(***************************************************************************)
C1_VectorWithinWeights ==
    \A m \in DOMAIN vector : Validated(m, vector[m])

C1_Witness ==
    /\ call.op = "Set"
    /\ call.err.kind = "InvalidValue"
    /\ DOMAIN vector = {AV, AC}

(***************************************************************************)
(* C2: Weight(m) returns NotFound exactly when m has never been set, and   *)
(* otherwise returns weights[m][v] for the stored value v, an entry that   *)
(* is present in the table.                                                *)
(***************************************************************************)
C2_WeightOfSetMetric ==
    \A m \in MetricNames :
        LET r == Weight(vector, m)
        IN  /\ r.err.kind = "NotFound" <=> m \notin everSet
            /\ m \in everSet =>
                   /\ r.err.kind = "nil"
                   /\ Get(vector, m).err.kind = "nil"
                   /\ Validated(m, Get(vector, m).value)
                   /\ r.w = Weights[m][Get(vector, m).value]
            /\ call.op = "Weight" /\ call.metric = m => call.ret = r

C2_Witness ==
    /\ call.op = "Weight"
    /\ call.metric = AV
    /\ call.ret.err.kind = "nil"
    /\ call.ret.w = 62
    /\ AC \notin everSet

(***************************************************************************)
(* C3, as stated: for a Metrics built by any number of Set calls, none     *)
(* included, with separator-free names and values, parsing String()        *)
(* succeeds and returns a map equal to it, whatever the order of String(). *)
(***************************************************************************)
C3_RoundTripAlways ==
    (Parsed /\ call.from = "String") =>
        /\ call.ret.err.kind = "nil"
        /\ call.ret.metrics = vector

(***************************************************************************)
(* C3, amended: the round trip holds for a Metrics built by one or more    *)
(* Set calls; with no Set call String() is the empty string, which         *)
(* strToMetrics rejects as a malformed token.                              *)
(***************************************************************************)
C3_RoundTripNonEmpty ==
    (Parsed /\ call.from = "String") =>
        IF DOMAIN vector = {}
        THEN /\ call.str = <<>>
             /\ call.ret.err.kind = "MalformedToken"
        ELSE /\ call.ret.err.kind = "nil"
             /\ DOMAIN call.ret.metrics = DOMAIN vector
             /\ \A m \in DOMAIN vector : call.ret.metrics[m] = vector[m]

C3_Witness ==
    /\ Parsed
    /\ call.from = "String"
    /\ Cardinality(DOMAIN vector) >= 2
    /\ <<>> \in DOMAIN vector
    /\ call.ret.err.kind = "nil"
    /\ DOMAIN call.ret.metrics = DOMAIN vector

(***************************************************************************)
(* C6: WeightsMetrics.Set(m, v) fails with UnknownMetric iff m is no key   *)
(* of the table, with InvalidValue iff m is a key and v no key of          *)
(* weights[m], and otherwise succeeds and makes Get(m) return v; a failure *)
(* leaves the vector as it was, a success keeps every other metric.        *)
(***************************************************************************)
C6_WeightedSet ==
    call.op = "Set" =>
        LET m == call.metric
            v == call.value
        IN  /\ call.err.kind = "UnknownMetric" <=> m \notin DOMAIN Weights
            /\ call.err.kind = "InvalidValue"
                   <=> (m \in DOMAIN Weights /\ v \notin DOMAIN Weights[m])
            /\ call.err.kind \in {"UnknownMetric", "InvalidValue", "nil"}
            /\ Failed(call.err) =>
                   /\ DOMAIN vector = DOMAIN call.before
                   /\ \A k \in DOMAIN vector : vector[k] = call.before[k]
            /\ ~Failed(call.err) =>
                   /\ Get(vector, m) = [value |-> v, err |-> NilError]
                   /\ DOMAIN vector = (DOMAIN call.before) \cup {m}
                   /\ \A k \in (DOMAIN call.before) \ {m} : vector[k] = call.before[k]

C6_Witness ==
    /\ call.op = "Set"
    /\ ~Failed(call.err)
    /\ call.metric \in DOMAIN call.before
    /\ call.before[call.metric] # call.value
    /\ (DOMAIN call.before) \ {call.metric} # {}

(***************************************************************************)
(* C7: when WeightsMetrics.Parse(str) fails in strToMetrics (a malformed   *)
(* token or a repeated metric), no Set was performed and the vector is as  *)
(* before the call, also when valid pairs precede the offending token.     *)
(***************************************************************************)
C7_RawFailureNoSet ==
    (call.op = "Parse" /\ (HasMalformed(call.str) \/ HasRepeat(call.str))) =>
        /\ call.err.kind \in {"MalformedToken", "DuplicateMetric"}
        /\ call.stored = {}
        /\ DOMAIN vector = DOMAIN call.before
        /\ \A k \in DOMAIN vector : vector[k] = call.before[k]

C7_Witness ==
    /\ call.op = "Parse"
    /\ call.err.kind \in {"MalformedToken", "DuplicateMetric"}
    /\ ExactlyOneColon(Token(call.str, 1))
    /\ LET m == NameOf(Token(call.str, 1))
           v == ValueOf(Token(call.str, 1))
       IN  /\ Validated(m, v)
           /\ m \notin DOMAIN vector

(***************************************************************************)
(* C8: when Parse(str) on a well-formed, duplicate-free str fails because  *)
(* Set rejects a pair, the vector is the one before overwritten by exactly *)
(* the pairs applied before the first rejected pair in the order of        *)
(* application; those stay committed, the rejected pair and the pairs      *)
(* after it are not applied.                                               *)
(***************************************************************************)
C8_NoRollback ==
    (/\ call.op = "Parse"
     /\ ~HasMalformed(call.str)
     /\ ~HasRepeat(call.str)
     /\ Failed(call.err)) =>
        LET s == call.str
            ord == call.ord
            k == Least({i \in 1..Len(ord) : ~Validated(ord[i], ValueIn(s, ord[i]))},
                       Len(ord) + 1)
            applied == {ord[i] : i \in 1..(k - 1)}
        IN  /\ {ord[i] : i \in 1..Len(ord)} = NamesOf(s)
            /\ Len(ord) = Cardinality(NamesOf(s))
            /\ k <= Len(ord)
            /\ call.err.kind \in {"UnknownMetric", "InvalidValue"}
            /\ call.err.args[1] = ord[k]
            /\ call.stored = applied
            /\ DOMAIN vector = (DOMAIN call.before) \cup applied
            /\ \A x \in DOMAIN vector :
                   vector[x] = Overwrite(call.before, s, applied)[x]

C8_Witness ==
    /\ call.op = "Parse"
    /\ call.err.kind \in {"UnknownMetric", "InvalidValue"}
    /\ call.stored # {}
    /\ \E m \in call.stored : m \notin DOMAIN call.before
    /\ \E m \in NamesOf(call.str) : m \notin call.stored

(***************************************************************************)
(* C9: WeightsMetrics.Set is the sole gate into the vector: no operation   *)
(* an external caller can reach on a WeightsMetrics, the Set of the        *)
(* underlying Metrics included, stores a pair that was not validated       *)
(* against the weight table.                                               *)
(***************************************************************************)
C9_SoleGate ==
    /\ call.op = "Metrics.Set" => Validated(call.metric, call.value)
    /\ \A m \in everSet : Validated(m, Get(vector, m).value)

(***************************************************************************)
(* C10: Parse(str) succeeds iff every token of str has exactly one ":", no *)
(* metric name repeats and every pair is valid in the weight table; on     *)
(* success the vector is the previous one overwritten with exactly the     *)
(* pairs of str, whatever the order in which they were applied.            *)
(***************************************************************************)
C10_ParseSucceedsIff ==
    call.op = "Parse" =>
        /\ ~Failed(call.err)
               <=> (~HasMalformed(call.str) /\ ~HasRepeat(call.str) /\ AllValid(call.str))
        /\ ~Failed(call.err) =>
               /\ DOMAIN vector = (DOMAIN call.before) \cup NamesOf(call.str)
               /\ \A x \in DOMAIN vector :
                      vector[x] = Overwrite(call.before, call.str, NamesOf(call.str))[x]
               /\ call.stored = NamesOf(call.str)

C10_Witness ==
    /\ call.op = "Parse"
    /\ ~Failed(call.err)
    /\ Len(call.ord) >= 2
    /\ \E m \in NamesOf(call.str) :
           m \in DOMAIN call.before /\ call.before[m] # vector[m]

====
